---- MODULE Spec2Model ----
(***************************************************************************)
(* A model of the timing-wheel scheduler of kelindar/timeline, taken from  *)
(* the latest revision of the scheduler source (src/unnamed/part_007,      *)
(* lines 137-401).                                                         *)
(*                                                                         *)
(* Wall-clock times and durations are counted in milliseconds instead of   *)
(* nanoseconds (TLC integers are 32 bits wide), so resolution is 10.       *)
(* The wheel, the admission bound and the width of the span type are       *)
(* scaled down; they are bounds of the model.                              *)
(*                                                                         *)
(* Every thread is a small state machine (pc, loc).  One step of a thread  *)
(* holds at most one access to shared memory that is not protected by a    *)
(* lock the thread holds, so that the interleavings of the atomics, of the *)
(* bucket mutexes and of the unprotected execution buffer are all there.   *)
(***************************************************************************)
EXTENDS Integers, Sequences, FiniteSets, TLC

\* ------------------------------------------------------------ bounds ----
numBuckets == 3     \* wheel size (100 in the source)
maxJobs == 3        \* admission bound (1e5 in the source)
SpanBits == 6       \* width of the span type (32 in the source)
MaxTicks == 4       \* Tick calls in one behaviour
MaxCalls == 3       \* scheduling calls in one behaviour (one job id each)

\* --------------------------------------------------------- constants ----
resolution == 10    \* milliseconds per tick

Threads == {1, 2, 3}
Buckets == 0 .. (numBuckets - 1)
JobIds == 1 .. (MaxCalls + 1)

\* The duration of one revolution of the wheel.
Window == numBuckets * resolution

VARIABLES
  next,       \* Scheduler.next : the cursor (atomic)
  buckets,    \* Scheduler.buckets[i].queue
  mu,         \* Scheduler.buckets[i].mu : 0 when free, else the holder
  jobs,       \* Scheduler.jobs (atomic)
  pending,    \* Scheduler.pending : [arr (backing array), len]
  pc,         \* position of every thread
  loc,        \* local variables of every thread
  driver,     \* the threads that call Tick
  menu,       \* the calls (method and arguments) every thread chooses from
  limit,      \* the numbers of Tick calls and of scheduling calls made
  seekTimes,  \* the arguments of the Seek calls still to be made
  cancelled,  \* emit: the jobs whose "cancelled" flag is set (atomic)
  clock,      \* Start: "idle", "running" (the goroutine loops), "stopped"
  ctxDone,    \* Start: the context of the clock is cancelled
  log,        \* history: the task invocations, in order
  meta,       \* history: what is known of every job id
  consumed,   \* history: the Tick calls, in the order of their cursor update
  base,       \* history: the cursor value set by New or by the last Seek
  cnt         \* history: Tick calls since New or the last Seek

vars == <<next, buckets, mu, jobs, pending, pc, loc, driver, menu, limit,
          seekTimes, cancelled, clock, ctxDone,
          log, meta, consumed, base, cnt>>

shared == <<next, buckets, mu, jobs, pending>>
hist == <<log, meta, consumed, base, cnt>>
\* What the scheduler's own code never writes: the inputs and the flags of
\* the code that uses it.
env == <<driver, menu, limit, cancelled, clock, ctxDone>>

\* ------------------------------------------------------- arithmetic ----
\* Go's integer division and remainder truncate toward zero.
GoDiv(a, b) == IF a >= 0 THEN a \div b ELSE -((-a) \div b)

GoRem(a, b) == a - b * GoDiv(a, b)

spanMod == 2 ^ SpanBits

\* span(x) : conversion of a signed 64 bit integer to the unsigned span.
ToSpan(x) == x % spanMod

\* tick.Time()
TimeOf(t) == t * resolution

\* tickOf(t)
tickOf(t) == GoDiv(t, resolution)

\* Faulty variant of DurationOfSpan: the span is taken as milliseconds.
DurationOfSpan_Ticks(s) == s

\* span.Duration()
DurationOfSpan(s) == s * resolution

\* Faulty variant of durationOf: the division rounds up.
durationOf_Ceil(d) == ToSpan(GoDiv(d + resolution - 1, resolution))

\* durationOf(d)
durationOf(d) == ToSpan(GoDiv(d, resolution))

\* Faulty variant of after: the delay is counted from the epoch.
after_NoCursor(cur, dt) == durationOf(dt)

\* Scheduler.after(dt), with the cursor value it loads
after(cur, dt) == cur + durationOf(dt)

\* Faulty variant of alignedAt: the cursor plus the interval.
alignedAt_Plain(cur, i) == cur + durationOf(i)

\* Scheduler.alignedAt(i), with the cursor value it loads; the interval is
\* not zero (the division by zero is a panic, see Call).
alignedAt(cur, i) == cur + durationOf(i) - GoRem(cur, durationOf(i))

\* Scheduler.bucketOf : the index; a negative index is a panic.
bucketIdx(when) == GoRem(when, numBuckets)

\* ------------------------------------------------------------ state ----
NoJob == [id |-> 0, RunAt |-> 0, Since |-> 0, Every |-> 0]

\* (snap is history: the content of the bucket when Tick locked it.)
NoLoc == [tickNow |-> 0, k |-> 0, qlen |-> 0, off |-> 0, n |-> 0, i |-> 0,
          cur |-> NoJob, job |-> NoJob, rb |-> 0, inTask |-> FALSE,
          nested |-> FALSE, ci |-> 0, start |-> FALSE, snap |-> <<>>]

\* What the history keeps of a job id:
\*   st      "none", "called" (admission), "queued" (in a bucket or being
\*           run), "dropped" (slot released), "panic" (the scheduling call
\*           panicked), "aborted" (drained by a Tick call that a panic ended)
\*   m       the method; when, every: the arguments given to schedule
\*   aligned the target tick was not behind the cursor when the job was
\*           appended, and Seek has not been called since
\*   nested  the method was called by a task; call: the Tick call running it
\*   tc      the Tick calls that had taken their bucket lock (or ended)
\*           when the job was appended
\*   ord     the rank of the last append of the job among all appends
\*   cur     the cursor value that the method loaded for its target tick
\*           (kept for the methods that take no wall time)
\*   d       the delay given to the method
\*   since   the Since field of the job when it was last appended
\*   rc      the Tick calls begun when the scheduling call returned (-1
\*           while it has not returned; kept for Run)
\*   stop    the length of the log when the task of the job, a recurring
\*           one, returned false (0 while it has not)
\*   sc      the cursor value that schedule loaded for the Since field
\*   emit    the task is the one of emitEvery: it publishes an event and
\*           returns false once its registration is cancelled
\*   cancel  the length of the log when the registration was cancelled
\*   slot    the call has incremented the counter of outstanding jobs and
\*           the job has not been dropped
NoMeta == [st |-> "none", m |-> "none", when |-> 0, every |-> 0,
           aligned |-> FALSE, nested |-> FALSE, call |-> 0, tc |-> 0,
           ord |-> 0, cur |-> 0, d |-> 0, since |-> 0, rc |-> -1,
           stop |-> 0, sc |-> 0, emit |-> FALSE, cancel |-> 0,
           slot |-> FALSE, iv |-> 0]

\* The arguments of one call of a scheduling method.
Run == [m |-> "Run", at |-> 0, d |-> 0, iv |-> 0, emit |-> FALSE]

RunAt(w) == [m |-> "RunAt", at |-> w, d |-> 0, iv |-> 0, emit |-> FALSE]

RunAfter(d) == [m |-> "RunAfter", at |-> 0, d |-> d, iv |-> 0, emit |-> FALSE]

RunEvery(i) == [m |-> "RunEvery", at |-> 0, d |-> 0, iv |-> i, emit |-> FALSE]

RunEveryAt(i, w) == [m |-> "RunEveryAt", at |-> w, d |-> 0, iv |-> i, emit |-> FALSE]

RunEveryAfter(i, d) == [m |-> "RunEveryAfter", at |-> 0, d |-> d, iv |-> i, emit |-> FALSE]

\* emit.Every: RunEvery with the task of emitEvery.
Every(i) == [RunEvery(i) EXCEPT !.emit = TRUE]

\* emit.EveryAt: RunEveryAt with the task of emitEvery.
EveryAt(i, w) == [RunEveryAt(i, w) EXCEPT !.emit = TRUE]

\* emit.EveryAfter: RunEveryAfter with the task of emitEvery.
EveryAfter(i, d) == [RunEveryAfter(i, d) EXCEPT !.emit = TRUE]

InitCommon ==
  /\ next = 0
  /\ buckets = [b \in Buckets |-> <<>>]
  /\ mu = [b \in Buckets |-> 0]
  /\ jobs = 0
  /\ pending = [arr |-> <<>>, len |-> 0]
  /\ pc = [p \in Threads |-> "idle"]
  /\ loc = [p \in Threads |-> NoLoc]
  /\ cancelled = {}
  /\ clock = "idle"
  /\ ctxDone = FALSE
  /\ log = <<>>
  /\ meta = [j \in JobIds |-> NoMeta]
  /\ consumed = <<>>
  /\ base = 0
  /\ cnt = 0

\* The inputs of a behaviour: the calls the driver thread (own), the second
\* thread (other) and the third thread (third, when given) choose from, and
\* the times passed to Seek.
\* One-shot jobs of a single thread: the same tick twice (0 and 5 ms), two
\* ticks one revolution apart, targets behind the cursor, Seek.
MenuOneShot ==
  [own |-> {Run, RunAt(0), RunAt(5), RunAt(Window)}, other |-> {},
   seeks |-> {20}, ticks |-> MaxTicks, calls |-> MaxCalls]

\* A thread that schedules while the driver ticks.
MenuOther ==
  [own |-> {RunAt(0)}, other |-> {Run, RunAt(0)}, seeks |-> {},
   ticks |-> MaxTicks, calls |-> MaxCalls]

\* Recurring jobs: every tick, and every revolution of the wheel.
MenuEvery ==
  [own |-> {Run, RunEvery(10), RunEveryAt(Window, 0)}, other |-> {},
   seeks |-> {}, ticks |-> MaxTicks, calls |-> MaxCalls]

\* Arguments at the edge: a time before the epoch, an interval shorter than
\* the resolution, a negative delay.
MenuEdge ==
  [own |-> {RunAt(-15), RunEvery(5), RunAfter(-10)}, other |-> {},
   seeks |-> {-15}, ticks |-> MaxTicks, calls |-> MaxCalls]

\* The number of Tick calls of the tests of recurring tasks.
TestTicks == 10

\* The number of tasks that these tests register.
TestTasks == 2

\* Tick calls for five revolutions of the wheel and one tick more.
LongTicks == 5 * numBuckets + 1

\* Recurring jobs of the tests: RunEvery for one tick and for three ticks.
MenuCadence ==
  [own |-> {RunEvery(10), RunEvery(30)}, other |-> {},
   seeks |-> {}, ticks |-> TestTicks, calls |-> TestTasks]

\* One recurring job for every revolution of the wheel, over many ticks.
MenuRevolution ==
  [own |-> {RunEvery(Window)}, other |-> {},
   seeks |-> {}, ticks |-> LongTicks, calls |-> 1]

\* Recurring jobs with a given first tick: an interval that does not divide
\* the wheel size and one that is longer than a revolution.
MenuPeriod ==
  [own |-> {RunEveryAt(20, 10), RunEveryAfter(Window + 10, 10)}, other |-> {},
   seeks |-> {}, ticks |-> TestTicks, calls |-> TestTasks]

\* One-shot jobs after a delay: none, and one that is not a multiple of the
\* resolution.
MenuAfter ==
  [own |-> {RunAfter(0), RunAfter(25)}, other |-> {},
   seeks |-> {}, ticks |-> MaxTicks, calls |-> MaxCalls]

\* Two threads that call Run while the scheduler is at capacity with
\* recurring jobs.
MenuCrowd ==
  [own |-> {RunEveryAt(10, 0)}, other |-> {Run}, third |-> {Run},
   seeks |-> {}, ticks |-> MaxTicks - 3, calls |-> MaxCalls + 1]

\* Recurring events of the emit package, which the driver thread registers
\* and cancels.
MenuEmit ==
  [own |-> {Every(10), EveryAt(20, 0), EveryAfter(10, 10)}, other |-> {},
   seeks |-> {}, ticks |-> MaxTicks, calls |-> MaxCalls - 1]

\* Recurring registrations with a first tick and an interval shorter than
\* the resolution.
MenuShort ==
  [own |-> {RunEveryAt(5, 0), RunEveryAfter(5, 10)}, other |-> {},
   seeks |-> {}, ticks |-> MaxTicks - 1, calls |-> MaxCalls - 1]

Menus ==
  {MenuOneShot, MenuOther, MenuEvery, MenuEdge, MenuCadence, MenuRevolution,
   MenuPeriod, MenuAfter, MenuCrowd, MenuEmit, MenuShort}

\* Two threads that call Tick once each, for two jobs of consecutive ticks.
MenuConc ==
  [own |-> {RunAt(0), RunAt(10)}, other |-> {}, seeks |-> {},
   ticks |-> MaxTicks - 2, calls |-> MaxCalls - 1]

MenusConc == {MenuConc}

MenuOf(mn) ==
  [p \in Threads |->
     IF p = 1 THEN mn.own
     ELSE IF p = 2 THEN mn.other
     ELSE IF "third" \in DOMAIN mn THEN mn.third
     ELSE {}]

\* The inputs are those of menu mn.
Inputs(mn) ==
  /\ menu = MenuOf(mn)
  /\ seekTimes = mn.seeks
  /\ limit = [ticks |-> mn.ticks, calls |-> mn.calls]

\* New() followed by one driver thread; the other thread only schedules.
Init ==
  /\ InitCommon
  /\ driver = {1}
  /\ \E mn \in Menus : Inputs(mn)

\* New() followed by one driver thread as in Init, or by two threads that
\* both call Tick.
InitConc ==
  /\ InitCommon
  /\ \/ driver = {1} /\ \E mn \in Menus : Inputs(mn)
     \/ driver = {1, 2} /\ \E mn \in MenusConc : Inputs(mn)

\* ------------------------------------------------ scheduling methods ----
\* Faulty variant of WhenOf: Run takes the tick before the cursor.
WhenOf_Before(c, cur) ==
  CASE c.m = "Run" -> cur - 1
    [] c.m = "RunAt" -> tickOf(c.at)
    [] c.m = "RunAfter" -> after(cur, c.d)
    [] c.m = "RunEvery" -> alignedAt(cur, c.iv)
    [] c.m = "RunEveryAt" -> tickOf(c.at)
    [] c.m = "RunEveryAfter" -> after(cur, c.d)

\* The first argument of schedule: the target tick, from the cursor value
\* that the method loads.
WhenOf(c, cur) ==
  CASE c.m = "Run" -> cur
    [] c.m = "RunAt" -> tickOf(c.at)
    [] c.m = "RunAfter" -> after(cur, c.d)
    [] c.m = "RunEvery" -> alignedAt(cur, c.iv)
    [] c.m = "RunEveryAt" -> tickOf(c.at)
    [] c.m = "RunEveryAfter" -> after(cur, c.d)

\* Faulty variant of EveryOf: an interval shorter than the resolution
\* counts as one tick.
EveryOf_AtLeastOne(c) ==
  IF c.m \in {"Run", "RunAt", "RunAfter"} THEN 0
  ELSE IF durationOf(c.iv) = 0 THEN 1 ELSE durationOf(c.iv)

\* The second argument of schedule: the interval in ticks.
EveryOf(c) ==
  IF c.m \in {"Run", "RunAt", "RunAfter"} THEN 0 ELSE durationOf(c.iv)

\* alignedAt divides by the interval: a zero interval is a run-time panic.
CallPanics(c) == c.m = "RunEvery" /\ durationOf(c.iv) = 0

FreeIds == {j \in 1 .. limit.calls : meta[j].st = "none"}

NewId == CHOOSE j \in FreeIds : \A k \in FreeIds : j <= k

\* The thread is back in the code that called the public method.
Unwind(p) ==
  /\ pc' = [pc EXCEPT ![p] = "idle"]
  /\ loc' = [loc EXCEPT ![p] = NoLoc]

\* The jobs that a Tick call of p has drained and not finished: the one
\* being run and the rest of the range.
Unfinished(p) ==
  IF loc[p].inTask
  THEN {loc[p].cur.id} \cup
       {pending.arr[x].id : x \in (loc[p].i + 1) .. loc[p].n}
  ELSE {}

\* History of a panic in thread p: the scheduling call of job id `failed`
\* (0 for none) did not complete, and a Tick call that was running a task
\* is aborted with its unfinished jobs.
Panicked(p, failed) ==
  [j \in JobIds |->
     IF j = failed THEN [meta[j] EXCEPT !.st = "panic"]
     ELSE IF j \in Unfinished(p) /\ meta[j].st = "queued"
     THEN [meta[j] EXCEPT !.st = "aborted"]
     ELSE meta[j]]

\* The methods whose target tick is computed from the cursor.
Relative == {"Run", "RunAfter", "RunEvery", "RunEveryAfter"}

\* Faulty variant of AtCapacity: every count is admitted.
AtCapacity_Never(count) == FALSE

\* schedule, condition of the admission loop: count >= maxJobs
AtCapacity(count) == count >= maxJobs

\* The public method up to the first iteration of the admission loop of
\* schedule: loads the cursor, computes the target tick, jobs.Add(1).
Enter(p, c, isNested) ==
  /\ FreeIds # {}
  /\ LET id == NewId
         when == WhenOf(c, next)
     IN IF CallPanics(c)
        THEN /\ Unwind(p)
             /\ meta' = [Panicked(p, 0) EXCEPT ![id] =
                  [NoMeta EXCEPT !.st = "panic", !.m = c.m,
                                 !.nested = isNested, !.call = loc[p].ci]]
             /\ UNCHANGED jobs
        ELSE /\ jobs' = jobs + 1
             /\ pc' = [pc EXCEPT ![p] =
                  IF AtCapacity(jobs + 1) THEN "s_wait" ELSE "s_enq"]
             /\ loc' = [loc EXCEPT ![p].job =
                  [id |-> id, RunAt |-> when, Since |-> 0,
                   Every |-> EveryOf(c)],
                  ![p].nested = isNested]
             /\ meta' = [meta EXCEPT ![id] =
                  [NoMeta EXCEPT !.st = "called", !.m = c.m,
                                 !.when = when, !.every = EveryOf(c),
                                 !.nested = isNested, !.call = loc[p].ci,
                                 !.cur = IF c.m \in Relative THEN next ELSE 0,
                                 !.d = c.d, !.emit = c.emit,
                                 !.slot = TRUE, !.iv = c.iv]]
  /\ UNCHANGED <<next, buckets, mu, pending, env, seekTimes, log, consumed, base, cnt>>

\* A scheduling method called by a thread that is not inside Tick.
Call(p, c) ==
  /\ pc[p] = "idle"
  /\ Enter(p, c, FALSE)

\* schedule, admission loop: count = s.jobs.Load() after a sleep.
Admit(p) ==
  /\ pc[p] = "s_wait"
  /\ ~AtCapacity(jobs)
  /\ pc' = [pc EXCEPT ![p] = "s_enq"]
  /\ UNCHANGED <<shared, loc, env, seekTimes, hist>>

\* Faulty variant of JobBucket: the bucket is taken from the delay.
JobBucket_BySince(j, cur) == bucketIdx(j.RunAt - cur)

\* enqueueJob: bucket := s.bucketOf(job.RunAt); cur is the cursor.
JobBucket(j, cur) == bucketIdx(j.RunAt)

\* schedule: the job literal (Since loads the cursor) and, in enqueueJob,
\* the selection of the bucket.
MakeJob(p) ==
  /\ pc[p] = "s_enq"
  /\ LET j == loc[p].job
         idx == JobBucket(j, next)
     IN IF idx < 0
        THEN /\ Unwind(p)
             /\ meta' = Panicked(p, j.id)
        ELSE /\ pc' = [pc EXCEPT ![p] = "s_lock"]
             /\ loc' = [loc EXCEPT ![p].job.Since = ToSpan(j.RunAt - next),
                                   ![p].rb = idx]
             /\ meta' = [meta EXCEPT ![j.id].sc = next]
  /\ UNCHANGED <<shared, env, seekTimes, log, consumed, base, cnt>>

\* History: the number of Tick calls that can no longer see an append made
\* now (all but those that still wait for their bucket lock).
Drained == Len(consumed) - Cardinality({p \in Threads : pc[p] = "t_lock"})

\* History: the rank of the next append.
Stamp ==
  1 + (CHOOSE x \in {meta[j].ord : j \in JobIds} :
         \A j \in JobIds : meta[j].ord <= x)

\* enqueueJob: bucket.mu.Lock() and the append.
EnqueueLock(p) ==
  /\ pc[p] = "s_lock"
  /\ mu[loc[p].rb] = 0
  /\ mu' = [mu EXCEPT ![loc[p].rb] = p]
  /\ buckets' = [buckets EXCEPT ![loc[p].rb] = Append(@, loc[p].job)]
  /\ meta' = [meta EXCEPT ![loc[p].job.id].st = "queued",
                          ![loc[p].job.id].aligned = (loc[p].job.RunAt >= next),
                          ![loc[p].job.id].tc = Drained,
                          ![loc[p].job.id].ord = Stamp,
                          ![loc[p].job.id].since = loc[p].job.Since]
  /\ pc' = [pc EXCEPT ![p] = "s_unlock"]
  /\ UNCHANGED <<next, jobs, pending, loc, env, seekTimes, log, consumed, base, cnt>>

\* enqueueJob: bucket.mu.Unlock() and the return of the public method.
EnqueueUnlock(p) ==
  /\ pc[p] = "s_unlock"
  /\ mu' = [mu EXCEPT ![loc[p].rb] = 0]
  /\ IF loc[p].inTask
     THEN /\ pc' = [pc EXCEPT ![p] = "in_task"]
          /\ loc' = [loc EXCEPT ![p].job = NoJob, ![p].rb = 0]
     ELSE Unwind(p)
  /\ meta' = [meta EXCEPT ![loc[p].job.id].rc =
                 IF meta[loc[p].job.id].m = "Run" THEN Len(consumed) ELSE @]
  /\ UNCHANGED <<next, buckets, jobs, pending, env, seekTimes, log, consumed,
                 base, cnt>>

\* Faulty variant of SeekCursor: the tick after the one of t.
SeekCursor_After(t) == tickOf(t) + 1

\* The value that Seek stores: int64(tickOf(t))
SeekCursor(t) == tickOf(t)

\* Seek: stores the tick of t in the cursor.
Seek(p, t) ==
  /\ pc[p] = "idle"
  /\ next' = SeekCursor(t)
  /\ base' = SeekCursor(t)
  /\ cnt' = 0
  /\ meta' = [j \in JobIds |-> [meta[j] EXCEPT !.aligned = FALSE]]
  /\ seekTimes' = seekTimes \ {t}
  /\ UNCHANGED <<buckets, mu, jobs, pending, pc, loc, env, log, consumed>>

\* ------------------------------------------------------------- Tick ----
\* Faulty variant of AppendPending: the job is put in front of the buffer.
AppendPending_Front(pd, task) ==
  [arr |-> <<task>> \o SubSeq(pd.arr, 1, pd.len), len |-> pd.len + 1]

\* s.pending = append(s.pending, task), on the backing array of the buffer
\* (the buffer never outgrows its capacity of 64 within the bounds).
AppendPending(pd, task) ==
  [arr |-> IF pd.len < Len(pd.arr)
           THEN [pd.arr EXCEPT ![pd.len + 1] = task]
           ELSE Append(SubSeq(pd.arr, 1, pd.len), task),
   len |-> pd.len + 1]

\* Faulty variant of TickNowOf: the tick after the one consumed.
TickNowOf_NoSub(added) == added

\* tickNow := tick(s.next.Add(1) - 1), from the value that Add returns.
TickNowOf(added) == added - 1

\* Faulty variant of TickBucket: every Tick call drains the first bucket.
TickBucket_First(tickNow) == 0

\* bucket := s.bucketOf(tickNow)
TickBucket(tickNow) == bucketIdx(tickNow)

\* Tick: s.next.Add(1) - 1 and the selection of the bucket.
BeginTick(p) ==
  /\ Len(consumed) < limit.ticks
  /\ next' = next + 1
  /\ cnt' = cnt + 1
  /\ LET tickNow == TickNowOf(next + 1)
     IN /\ consumed' = Append(consumed,
             [T |-> tickNow, c |-> base, i |-> cnt + 1, done |-> FALSE,
              ret |-> 0, fault |-> 0, lost |-> {}])
        /\ IF TickBucket(tickNow) < 0
           THEN Unwind(p)
           ELSE /\ pc' = [pc EXCEPT ![p] = "t_lock"]
                /\ loc' = [loc EXCEPT ![p].tickNow = tickNow,
                                      ![p].ci = Len(consumed) + 1]
  /\ UNCHANGED <<buckets, mu, jobs, pending, env, seekTimes, log, meta, base>>

\* Tick called by a driver thread.
TickBegin(p) ==
  /\ pc[p] = "idle"
  /\ p \in driver
  /\ BeginTick(p)

\* Faulty variant of ResetPending: the buffer keeps the jobs of the call
\* before.
ResetPending_Kept(pd) == pd

\* s.pending = s.pending[:0]
ResetPending(pd) == [pd EXCEPT !.len = 0]

\* Tick: bucket.mu.Lock(), s.pending = s.pending[:0], start of the scan.
TickLock(p) ==
  /\ pc[p] = "t_lock"
  /\ LET b == TickBucket(loc[p].tickNow)
     IN /\ mu[b] = 0
        /\ mu' = [mu EXCEPT ![b] = p]
        /\ pending' = ResetPending(pending)
        /\ loc' = [loc EXCEPT ![p].k = 1, ![p].qlen = Len(buckets[b]),
                              ![p].off = 0, ![p].snap = buckets[b]]
  /\ pc' = [pc EXCEPT ![p] = "t_scan"]
  /\ UNCHANGED <<next, buckets, jobs, env, seekTimes, hist>>

\* Faulty variant of IsLater: the jobs of the tick itself stay as well.
IsLater_OrNow(task, tickNow) == task.RunAt >= tickNow

\* Faulty variant of IsLater: every job of the bucket is taken as due.
IsLater_Never(task, tickNow) == FALSE

\* Faulty variant of Keep: the job is kept without its Since.
Keep_NoSince(q, offset, task) ==
  [q EXCEPT ![offset + 1] = [task EXCEPT !.Since = 0]]

\* Faulty variant of Keep: the job is left where it is.
Keep_InPlace(q, offset, task) == q

\* bucket.queue[offset] = task
Keep(q, offset, task) == [q EXCEPT ![offset + 1] = task]

\* case task.RunAt > tickNow : the job stays in the bucket.
IsLater(task, tickNow) == task.RunAt > tickNow

\* Tick: one iteration of the scan of the bucket.
TickScan(p) ==
  /\ pc[p] = "t_scan"
  /\ loc[p].k <= loc[p].qlen
  /\ LET b == TickBucket(loc[p].tickNow)
         task == buckets[b][loc[p].k]
     IN IF IsLater(task, loc[p].tickNow)
        THEN /\ buckets' = [buckets EXCEPT ![b] = Keep(@, loc[p].off, task)]
             /\ loc' = [loc EXCEPT ![p].off = @ + 1, ![p].k = @ + 1]
             /\ UNCHANGED pending
        ELSE /\ pending' = AppendPending(pending, task)
             /\ loc' = [loc EXCEPT ![p].k = @ + 1]
             /\ UNCHANGED buckets
  /\ UNCHANGED <<next, mu, jobs, pc, env, seekTimes, hist>>

\* Faulty variant of Truncate: the bucket is emptied.
Truncate_Empty(q, offset) == <<>>

\* Faulty variant of Truncate: the bucket keeps the jobs that were drained.
Truncate_None(q, offset) == q

\* bucket.queue[:offset]
Truncate(q, offset) == SubSeq(q, 1, offset)

\* Faulty variant of UnlockAfterScan: the unlock is deferred to the end of Tick.
UnlockAfterScan_Deferred(m, b) == m

\* bucket.mu.Unlock() at the end of the scan
UnlockAfterScan(m, b) == [m EXCEPT ![b] = 0]

\* Tick: bucket.queue = bucket.queue[:offset] and bucket.mu.Unlock().
TickUnlock(p) ==
  /\ pc[p] = "t_scan"
  /\ loc[p].k > loc[p].qlen
  /\ LET b == TickBucket(loc[p].tickNow)
     IN /\ buckets' = [buckets EXCEPT ![b] = Truncate(@, loc[p].off)]
        /\ mu' = UnlockAfterScan(mu, b)
  /\ pc' = [pc EXCEPT ![p] = "t_range"]
  /\ UNCHANGED <<next, jobs, pending, loc, env, seekTimes, hist>>

\* Tick: the range clause evaluates s.pending once.
TickRange(p) ==
  /\ pc[p] = "t_range"
  /\ loc' = [loc EXCEPT ![p].n = pending.len, ![p].i = 1,
                        ![p].snap = <<>>]
  /\ pc' = [pc EXCEPT ![p] = "t_exec"]
  /\ UNCHANGED <<shared, env, seekTimes, hist>>

\* Tick: the next element of the buffer is read and its task is called.
TaskInvoke(p) ==
  /\ pc[p] = "t_exec"
  /\ loc[p].i <= loc[p].n
  /\ LET task == pending.arr[loc[p].i]
     IN /\ loc' = [loc EXCEPT ![p].cur = task, ![p].inTask = TRUE,
                              ![p].nested = FALSE]
        /\ log' = Append(log, [id |-> task.id, T |-> loc[p].tickNow,
                               call |-> loc[p].ci, RunAt |-> task.RunAt,
                               ord |-> meta[task.id].ord,
                               elapsed |-> DurationOfSpan(task.Since)])
  /\ pc' = [pc EXCEPT ![p] = "in_task"]
  /\ UNCHANGED <<shared, env, seekTimes, meta, consumed, base, cnt>>

\* A task calls a scheduling method of the scheduler that runs it.
TaskCall(p, c) ==
  /\ pc[p] = "in_task"
  /\ ~loc[p].nested
  /\ ~meta[loc[p].cur.id].emit
  /\ Enter(p, c, TRUE)

\* Faulty variant of Propagate: Tick recovers the panic and goes on with
\* the next job of its buffer.
Propagate_Recovered(p) ==
  /\ pc' = [pc EXCEPT ![p] = "t_exec"]
  /\ loc' = [loc EXCEPT ![p].i = @ + 1, ![p].cur = NoJob,
                        ![p].inTask = FALSE, ![p].nested = FALSE]

\* Tick has no recover: a panic of task.Task ends the Tick call and goes on
\* in its caller.
Propagate(p) == Unwind(p)

\* A task faults (history: the Tick call keeps the length of the log and the
\* jobs that it drained after the faulting one).
TaskPanic(p) ==
  /\ pc[p] = "in_task"
  /\ ~meta[loc[p].cur.id].emit
  /\ Propagate(p)
  /\ meta' = Panicked(p, 0)
  /\ consumed' = [consumed EXCEPT ![loc[p].ci].fault = Len(log),
                                  ![loc[p].ci].lost =
                                     Unfinished(p) \ {loc[p].cur.id}]
  /\ UNCHANGED <<shared, env, seekTimes, log, base, cnt>>

\* The value of the task of emitEvery: return !cancelled.Load()
EmitResult(j) == j \notin cancelled

\* Faulty variant of ShouldRepeat: the value of the task is not looked at.
ShouldRepeat_Always(r, task) == task.Every # 0

\* Faulty variant of ShouldRepeat: the interval is not looked at.
ShouldRepeat_AnyEvery(r, task) == r

\* repeat := task.Task(...) && task.Every != 0, for the value r of the task
ShouldRepeat(r, task) == r /\ task.Every # 0

\* History: the task of a recurring job has returned false.
Marked(r, task) ==
  IF ~r /\ task.Every # 0
  THEN [meta EXCEPT ![task.id].stop = Len(log)]
  ELSE meta

\* Faulty variant of NextTickOf: the interval is added twice.
NextTickOf_Twice(tickNow, task) == tickNow + 2 * task.Every

\* nextTick := tickNow + tick(task.Every)
NextTickOf(tickNow, task) == tickNow + task.Every

\* Faulty variant of RequeueBucket: always the bucket just drained.
RequeueBucket_Same(tickNow, nextTick) == bucketIdx(tickNow)

\* Faulty variant of RequeueBucket: the bucket after the one drained.
RequeueBucket_Next(tickNow, nextTick) == bucketIdx(tickNow + 1)

\* The bucket of a re-insertion: the bucket just drained when nextTick maps
\* to it, else s.bucketOf(nextTick).
RequeueBucket(tickNow, nextTick) ==
  IF bucketIdx(nextTick) = bucketIdx(tickNow)
  THEN bucketIdx(tickNow)
  ELSE bucketIdx(nextTick)

\* Faulty variant of Released: the counter is left as it is.
Released_Not(count) == count

\* s.jobs.Add(-1), when a job is dropped
Released(count) == count - 1

\* Tick: the task returns r; the switch selects the re-insertion or the
\* release of the admission slot.
TaskReturn(p, r) ==
  /\ pc[p] = "in_task"
  /\ meta[loc[p].cur.id].emit => r = EmitResult(loc[p].cur.id)
  /\ LET task == loc[p].cur
         tickNow == loc[p].tickNow
         repeat == ShouldRepeat(r, task)
         nextTick == NextTickOf(tickNow, task)
     IN IF repeat /\ bucketIdx(nextTick) < 0
        THEN /\ Unwind(p)
             /\ meta' = Panicked(p, 0)
             /\ UNCHANGED jobs
        ELSE IF repeat /\ bucketIdx(nextTick) = bucketIdx(tickNow)
        THEN /\ pc' = [pc EXCEPT ![p] = "rq_lock"]
             /\ loc' = [loc EXCEPT ![p].rb = RequeueBucket(tickNow, nextTick),
                  ![p].job = [task EXCEPT !.Since = ToSpan(nextTick - tickNow),
                                          !.RunAt = nextTick]]
             /\ meta' = Marked(r, task)
             /\ UNCHANGED jobs
        ELSE IF repeat
        THEN /\ pc' = [pc EXCEPT ![p] = "rq_lock"]
             /\ loc' = [loc EXCEPT ![p].rb = RequeueBucket(tickNow, nextTick),
                  ![p].job = [id |-> task.id, RunAt |-> nextTick,
                              Since |-> task.Every, Every |-> task.Every]]
             /\ meta' = Marked(r, task)
             /\ UNCHANGED jobs
        ELSE /\ jobs' = Released(jobs)
             /\ pc' = [pc EXCEPT ![p] = "t_exec"]
             /\ loc' = [loc EXCEPT ![p].i = @ + 1, ![p].cur = NoJob,
                                   ![p].inTask = FALSE, ![p].nested = FALSE]
             /\ meta' = [Marked(r, task) EXCEPT ![task.id].st =
                  IF @ = "queued" THEN "dropped" ELSE @,
                  ![task.id].slot = FALSE]
  /\ UNCHANGED <<next, buckets, mu, pending, env, seekTimes, log, consumed, base, cnt>>

\* Tick, re-insertion: bucket.mu.Lock() and the append.
RequeueLock(p) ==
  /\ pc[p] = "rq_lock"
  /\ mu[loc[p].rb] = 0
  /\ mu' = [mu EXCEPT ![loc[p].rb] = p]
  /\ buckets' = [buckets EXCEPT ![loc[p].rb] = Append(@, loc[p].job)]
  /\ meta' = [meta EXCEPT ![loc[p].job.id].ord = Stamp,
                          ![loc[p].job.id].since = loc[p].job.Since]
  /\ pc' = [pc EXCEPT ![p] = "rq_unlock"]
  /\ UNCHANGED <<next, jobs, pending, loc, env, seekTimes, log, consumed,
                 base, cnt>>

\* Faulty variant of UnlockAfterRequeue: the mutex stays locked.
UnlockAfterRequeue_Kept(m, b) == m

\* bucket.mu.Unlock() after the re-insertion of a recurring job
UnlockAfterRequeue(m, b) == [m EXCEPT ![b] = 0]

\* Tick, re-insertion: bucket.mu.Unlock(); the loop goes on.
RequeueUnlock(p) ==
  /\ pc[p] = "rq_unlock"
  /\ mu' = UnlockAfterRequeue(mu, loc[p].rb)
  /\ pc' = [pc EXCEPT ![p] = "t_exec"]
  /\ loc' = [loc EXCEPT ![p].i = @ + 1, ![p].cur = NoJob, ![p].job = NoJob,
                        ![p].rb = 0, ![p].inTask = FALSE, ![p].nested = FALSE]
  /\ UNCHANGED <<next, buckets, jobs, pending, env, seekTimes, hist>>

\* Tick: the loop is over, return tickNow.Time().
TickReturn(p) ==
  /\ pc[p] = "t_exec"
  /\ loc[p].i > loc[p].n
  /\ consumed' = [consumed EXCEPT ![loc[p].ci].done = TRUE,
                                  ![loc[p].ci].ret = TimeOf(loc[p].tickNow)]
  /\ pc' = [pc EXCEPT ![p] = IF loc[p].start THEN "st_go" ELSE "idle"]
  /\ loc' = [loc EXCEPT ![p] = NoLoc]
  /\ UNCHANGED <<shared, env, seekTimes, log, meta, base, cnt>>

\* ------------------------------------------------------------- emit ----
\* The cancel function that emitEvery returned for job j, called by a
\* thread that is not inside Tick: cancelled.Store(true).
Cancel(p, j) ==
  /\ pc[p] = "idle"
  /\ meta[j].emit /\ meta[j].st \in {"queued", "dropped", "aborted"}
  /\ \A q \in Threads : loc[q].job.id = j => loc[q].inTask
  /\ j \notin cancelled
  /\ cancelled' = cancelled \cup {j}
  /\ meta' = [meta EXCEPT ![j].cancel = Len(log)]
  /\ UNCHANGED <<shared, pc, loc, driver, menu, limit, clock, ctxDone,
                 seekTimes, log, consumed, base, cnt>>

\* ------------------------------------------------------------ Start ----
\* The thread of the goroutine that Start launches.
ClockThread == 3

\* The thread that calls Start, once.
StartThread == 1

\* The resolution boundaries that Start may find to be the next one.
StartTimes == {resolution, 2 * resolution}

\* Start: s.Seek(next), for the next boundary t of the wall clock.
StartSeek(p, t) ==
  /\ pc[p] = "idle"
  /\ p = StartThread
  /\ clock = "idle"
  /\ next' = tickOf(t)
  /\ base' = tickOf(t)
  /\ cnt' = 0
  /\ meta' = [j \in JobIds |-> [meta[j] EXCEPT !.aligned = FALSE]]
  /\ pc' = [pc EXCEPT ![p] = "st_tick"]
  /\ loc' = [loc EXCEPT ![p].start = TRUE]
  /\ UNCHANGED <<buckets, mu, jobs, pending, env, seekTimes, log, consumed>>

\* Start: the first s.Tick(), after the sleep, in the thread of the caller.
StartTick(p) ==
  /\ pc[p] = "st_tick"
  /\ BeginTick(p)

\* Start: the go statement and return cancel.
StartReturn(p) ==
  /\ pc[p] = "st_go"
  /\ clock' = "running"
  /\ pc' = [pc EXCEPT ![p] = "idle"]
  /\ UNCHANGED <<shared, loc, driver, menu, limit, cancelled, ctxDone,
                 seekTimes, hist>>

\* The goroutine of Start: case <-ticker.C: s.Tick()
ClockTick(p) ==
  /\ p = ClockThread
  /\ pc[p] = "idle"
  /\ clock = "running"
  /\ BeginTick(p)

\* The cancel function that Start returned, or the cancellation of the
\* context that was given to Start.
CancelStart(p) ==
  /\ pc[p] = "idle"
  /\ p # ClockThread
  /\ ~ctxDone
  /\ ctxDone' = TRUE
  /\ UNCHANGED <<shared, pc, loc, driver, menu, limit, cancelled, clock,
                 seekTimes, hist>>

\* Faulty variant of CanStop: the goroutine does not look at the context.
CanStop_Never(done) == FALSE

\* The goroutine of Start: case <-ctx.Done() is ready.
CanStop(done) == done

\* The goroutine of Start: case <-ctx.Done(): ticker.Stop(); return
ClockStop(p) ==
  /\ p = ClockThread
  /\ pc[p] = "idle"
  /\ clock = "running"
  /\ CanStop(ctxDone)
  /\ clock' = "stopped"
  /\ UNCHANGED <<shared, pc, loc, driver, menu, limit, cancelled, ctxDone,
                 seekTimes, hist>>

\* ---------------------------------------------------- specification ----
Next ==
  \E p \in Threads :
     \/ \E c \in menu[p] : Call(p, c)
     \/ Admit(p)
     \/ MakeJob(p)
     \/ EnqueueLock(p)
     \/ EnqueueUnlock(p)
     \/ \E t \in seekTimes : Seek(p, t)
     \/ TickBegin(p)
     \/ TickLock(p)
     \/ TickScan(p)
     \/ TickUnlock(p)
     \/ TickRange(p)
     \/ TaskInvoke(p)
     \/ \E c \in menu[p] : TaskCall(p, c)
     \/ TaskPanic(p)
     \/ \E r \in BOOLEAN : TaskReturn(p, r)
     \/ RequeueLock(p)
     \/ RequeueUnlock(p)
     \/ TickReturn(p)
     \/ \E j \in JobIds : Cancel(p, j)

\* One driver thread and one thread that only schedules.
Spec == Init /\ [][Next]_vars

\* The same, and two threads that both call Tick.
SpecConc == InitConc /\ [][Next]_vars

\* The test of Start: the clock runs, tasks are scheduled meanwhile.
MenuClock ==
  [own |-> {Run, RunEvery(10)}, other |-> {}, seeks |-> {},
   ticks |-> MaxTicks - 1, calls |-> TestTasks]

\* New(); the clock is started by Start and no thread calls Tick itself.
InitClock ==
  /\ InitCommon
  /\ driver = {}
  /\ Inputs(MenuClock)

\* The steps of thread p that complete an operation already begun.
Progress(p) ==
  \/ MakeJob(p)
  \/ EnqueueLock(p)
  \/ EnqueueUnlock(p)
  \/ StartTick(p)
  \/ StartReturn(p)
  \/ TickLock(p)
  \/ TickScan(p)
  \/ TickUnlock(p)
  \/ TickRange(p)
  \/ TaskInvoke(p)
  \/ \E r \in BOOLEAN : TaskReturn(p, r)
  \/ RequeueLock(p)
  \/ RequeueUnlock(p)
  \/ TickReturn(p)

NextClock ==
  \E p \in Threads :
     \/ \E c \in menu[p] : Call(p, c)
     \/ \E t \in StartTimes : StartSeek(p, t)
     \/ ClockTick(p)
     \/ CancelStart(p)
     \/ ClockStop(p)
     \/ Progress(p)

\* The clock of Start with tasks that return.  Every thread goes on with
\* the operation it is in (the Go scheduler runs every goroutine), and the
\* select statement of the clock, which chooses at random among the ready
\* cases, takes the case of the cancelled context in the end.
SpecClock ==
  /\ InitClock
  /\ [][NextClock]_vars
  /\ \A p \in Threads : WF_vars(Progress(p))
  /\ SF_vars(ClockStop(ClockThread))

\* ============================================================ claims ====
LogIx == 1 .. Len(log)

CallIx == 1 .. Len(consumed)

\* The invocations of the task of job j.
RunsOf(j) == {k \in LogIx : log[k].id = j}

\* The jobs that were appended to a bucket by a scheduling call.
Accepted == {j \in JobIds : meta[j].st \in {"queued", "dropped", "aborted"}}

\* C1: a Tick call that consumes T invokes the task of a job only if the
\* job's RunAt <= T; the task given to RunAt(task, W) is never invoked by a
\* call that consumes a tick smaller than tickOf(W).
C1_DueOnly ==
  \A k \in LogIx :
     /\ log[k].RunAt <= log[k].T
     /\ meta[log[k].id].m = "RunAt" => meta[log[k].id].when <= log[k].T

\* C1, witness: a job of RunAt sat in its bucket while a Tick call one
\* revolution earlier scanned it, and ran at its own tick.
C1_Witness ==
  \E k \in LogIx : \E c \in CallIx :
     /\ meta[log[k].id].m = "RunAt"
     /\ log[k].T = meta[log[k].id].when
     /\ consumed[c].done
     /\ consumed[c].T = log[k].T - numBuckets
     /\ meta[log[k].id].tc < c

\* C3: the task of a job with Every = 0 is invoked at most once.
C3_OneShotOnce ==
  \A j \in JobIds : meta[j].every = 0 => Cardinality(RunsOf(j)) <= 1

\* C3, witness: a one-shot job has run and been dropped, and a later Tick
\* call has gone through the same bucket again.
C3_Witness ==
  \E j \in JobIds : \E k \in LogIx : \E c \in CallIx :
     /\ meta[j].every = 0 /\ meta[j].st = "dropped"
     /\ log[k].id = j
     /\ c > log[k].call /\ consumed[c].done
     /\ consumed[c].T = log[k].T + numBuckets

\* C4: the Tick calls made since the cursor was set to c consume c, c + 1,
\* ... in this order, the i-th of them returns the time of tick c + i - 1,
\* and the cursor is c plus the number of these calls.
C4_Consecutive ==
  /\ next = base + cnt
  /\ \A k \in CallIx :
        /\ consumed[k].T = consumed[k].c + consumed[k].i - 1
        /\ consumed[k].done => consumed[k].ret = TimeOf(consumed[k].T)

\* C4, witness: three calls in a row after a Seek have returned.
C4_Witness ==
  \E k \in CallIx :
     /\ k >= 3 /\ consumed[k].i = 3 /\ consumed[k].c # 0
     /\ \A h \in (k - 2) .. k : consumed[h].done

\* The smallest element of a non-empty set of integers.
Least(S) == CHOOSE x \in S : \A y \in S : x <= y

\* The Tick calls that can see job j in its bucket and consume a tick that
\* is not before its target.
AtOrAfter(j) ==
  {i \in CallIx : i > meta[j].tc /\ consumed[i].T >= meta[j].when}

\* Those of them that go through the bucket of job j.
Reaching(j) ==
  {i \in AtOrAfter(j) : TickBucket(consumed[i].T) = bucketIdx(meta[j].when)}

\* The task of job j has run in the first call of the set, and only there,
\* once that call has returned; it has not run while the set is empty.
RunsOnceInFirst(j, calls) ==
  /\ Cardinality(RunsOf(j)) <= 1
  /\ calls = {} => RunsOf(j) = {}
  /\ calls # {} =>
        /\ \A k \in RunsOf(j) : log[k].call = Least(calls)
        /\ consumed[Least(calls)].done => RunsOf(j) # {}

\* C2, as stated: the task given to RunAt(task, W) runs exactly once, in
\* the first Tick call whose consumed tick is >= tickOf(W), wherever the
\* cursor was when RunAt was called.
C2_Original ==
  \A j \in Accepted : meta[j].m = "RunAt" => RunsOnceInFirst(j, AtOrAfter(j))

\* C2, amended: the task given to RunAt(task, W) runs at most once, and only
\* in the first Tick call after the append that consumes a tick T >=
\* tickOf(W) with T mod wheel_size = tickOf(W) mod wheel_size; when that
\* call returns the task has run.  That call consumes tickOf(W) when
\* tickOf(W) was not behind the cursor and Seek was not called.
C2_RunAtOnce ==
  \A j \in Accepted : meta[j].m = "RunAt" =>
     /\ RunsOnceInFirst(j, Reaching(j))
     /\ meta[j].aligned => \A k \in RunsOf(j) : log[k].T = meta[j].when

\* C2, witness: a job of RunAt that was behind the cursor when appended has
\* run, a revolution of the wheel later than the first call at or after it.
C2_Witness ==
  \E j \in Accepted : \E k \in RunsOf(j) :
     /\ meta[j].m = "RunAt"
     /\ log[k].T > meta[j].when
     /\ Least(AtOrAfter(j)) < log[k].call
     /\ consumed[log[k].call].done

\* C5, as stated: of two jobs the one with the smaller RunAt runs in a
\* strictly earlier Tick call, whenever and in whatever order they were
\* scheduled.
C5_Original ==
  \A k, l \in LogIx : log[k].RunAt < log[l].RunAt => log[k].call < log[l].call

\* C5, amended: of two jobs that were not behind the cursor when appended,
\* with no Seek since, the one with the smaller RunAt runs in a strictly
\* earlier Tick call.
C5_AlignedOrder ==
  \A k, l \in LogIx :
     /\ meta[log[k].id].aligned /\ meta[log[l].id].aligned
     /\ log[k].RunAt < log[l].RunAt
     => log[k].call < log[l].call

\* C5, witness: two such jobs of different ticks have both run.
C5_Witness ==
  \E k, l \in LogIx :
     /\ meta[log[k].id].aligned /\ meta[log[l].id].aligned
     /\ log[k].id # log[l].id
     /\ log[k].RunAt < log[l].RunAt
     /\ log[k].call < log[l].call

\* C6: the tasks that one Tick call runs are run in the order in which
\* their jobs were appended to the bucket.
C6_AppendOrder ==
  \A k, l \in LogIx :
     k < l /\ log[k].call = log[l].call => log[k].ord < log[l].ord

\* C6, witness: RunAt for two times of the same tick; both tasks have run
\* in one call.
C6_Witness ==
  \E k, l \in LogIx :
     /\ k < l /\ log[k].call = log[l].call
     /\ meta[log[k].id].m = "RunAt" /\ meta[log[l].id].m = "RunAt"
     /\ log[k].RunAt = log[l].RunAt

\* The bucket mutexes that thread p is waiting for.
Wants(p) ==
  IF pc[p] \in {"s_lock", "rq_lock"} THEN {loc[p].rb}
  ELSE IF pc[p] = "t_lock" THEN {TickBucket(loc[p].tickNow)}
  ELSE {}

\* C7: a thread never waits for a bucket mutex that it holds itself (a task
\* that schedules into the bucket being processed gets the lock), and the
\* holder of a mutex that is waited for is not waiting for a mutex.
C7_NoLockDeadlock ==
  \A p \in Threads : \A b \in Wants(p) :
     /\ mu[b] # p
     /\ mu[b] # 0 => Wants(mu[b]) = {}

\* C7, witness: a task has scheduled a job into the bucket that its Tick
\* call was processing, and that Tick call has returned.
C7_Witness ==
  \E j \in JobIds :
     /\ meta[j].nested /\ meta[j].st = "queued"
     /\ bucketIdx(meta[j].when) = TickBucket(consumed[meta[j].call].T)
     /\ consumed[meta[j].call].done

\* C8: a thread whose Tick call is running a task holds no bucket mutex.
C8_NoLockInTask ==
  \A p \in Threads : pc[p] = "in_task" => \A b \in Buckets : mu[b] # p

\* C8, witness: the second task of a Tick call is running, after the first
\* one was put back into a bucket.
C8_Witness ==
  \E p \in Threads : \E k \in LogIx : \E b \in Buckets :
     /\ pc[p] = "in_task" /\ loc[p].i >= 2
     /\ log[k].call = loc[p].ci /\ log[k].id # loc[p].cur.id
     /\ \E x \in 1 .. Len(buckets[b]) : buckets[b][x].id = log[k].id

\* The positions of bucket b that hold a job: all of them, but for the part
\* of a bucket under scan that is neither compacted nor yet scanned.
Live(b) ==
  IF \E p \in Threads : pc[p] = "t_scan" /\ TickBucket(loc[p].tickNow) = b
  THEN LET p == CHOOSE q \in Threads :
                  pc[q] = "t_scan" /\ TickBucket(loc[q].tickNow) = b
       IN (1 .. loc[p].off) \cup (loc[p].k .. Len(buckets[b]))
  ELSE 1 .. Len(buckets[b])

\* The positions of the execution buffer that the Tick call of p still owns.
Owned(p) ==
  CASE pc[p] \in {"t_scan", "t_range"} -> 1 .. pending.len
    [] pc[p] = "t_exec" -> loc[p].i .. loc[p].n
    [] pc[p] = "rq_unlock" -> (loc[p].i + 1) .. loc[p].n
    [] loc[p].inTask -> loc[p].i .. loc[p].n
    [] OTHER -> {}

\* The number of places that hold job j.
Places(j) ==
  Cardinality(UNION {{<<b, x>> : x \in {y \in Live(b) : buckets[b][y].id = j}} :
                       b \in Buckets})
  + Cardinality(UNION {{<<p, x>> : x \in {y \in Owned(p) : pending.arr[y].id = j}} :
                         p \in driver})

\* C10: with one thread in Tick and others scheduling, a job that was
\* appended and is not dropped is in exactly one place, a bucket or the
\* execution buffer of the Tick call that drained it; other jobs are in none
\* (the jobs of a Tick call that a panic ended are gone with the call).
C10_OnePlace ==
  \A j \in JobIds : Places(j) = IF meta[j].st = "queued" THEN 1 ELSE 0

\* C10, witness: the other thread has appended a due job to the bucket that
\* the Tick call in progress has just drained into its buffer.
C10_Witness ==
  /\ pc[1] \in {"t_range", "t_exec", "in_task"}
  /\ pc[2] = "s_unlock"
  /\ loc[2].rb = TickBucket(loc[1].tickNow)
  /\ loc[2].job.RunAt <= loc[1].tickNow
  /\ pending.len >= 1

\* C9: when two threads call Tick concurrently, the calls made since the
\* cursor was last set consume distinct ticks, the task of a job is invoked
\* only by a call whose consumed tick is >= the job's RunAt, and the task of
\* a one-shot job is invoked at most once.
C9_ConcurrentTick ==
  /\ \A a \in CallIx : \A b \in CallIx :
        a # b /\ consumed[a].c = consumed[b].c => consumed[a].T # consumed[b].T
  /\ \A k \in LogIx : log[k].RunAt <= log[k].T
  /\ \A j \in JobIds : meta[j].every = 0 => Cardinality(RunsOf(j)) <= 1

\* Seek has not been called (no Seek of the inputs is to the epoch).
NoSeek == base = 0

\* C11: the task given to Run by a thread that is not inside Tick, with
\* another thread calling Tick and no Seek, runs at most once and no later
\* than the first Tick call begun after Run returned; when that Tick call
\* has returned the task has run.
C11_RunNextTick ==
  \A j \in JobIds :
     /\ meta[j].m = "Run" /\ ~meta[j].nested
     /\ meta[j].rc >= 0 /\ meta[j].st # "aborted"
     /\ NoSeek
     => /\ Cardinality(RunsOf(j)) <= 1
        /\ \A k \in RunsOf(j) : log[k].call <= meta[j].rc + 1
        /\ (meta[j].rc + 1) \in CallIx /\ consumed[meta[j].rc + 1].done
           => RunsOf(j) # {}

\* The ticks at which the task of job j was invoked.
TicksOf(j) == {log[k].T : k \in RunsOf(j)}

\* The Tick calls that have returned.
DoneIx == {i \in CallIx : consumed[i].done}

\* Job j is a recurring job whose task has returned true so far, appended
\* with its first tick not behind the cursor, with no Seek.
Continuing(j) ==
  /\ meta[j].st = "queued" /\ meta[j].stop = 0
  /\ meta[j].every >= 1
  /\ meta[j].aligned /\ NoSeek

\* The task of job j has run exactly once at each tick first, first + k,
\* first + 2k, ... that a returned Tick call has consumed, and at no other
\* tick.
RunsEvery(j, first, k) ==
  /\ Cardinality(RunsOf(j)) = Cardinality(TicksOf(j))
  /\ \A t \in TicksOf(j) : t >= first /\ (t - first) % k = 0
  /\ \A i \in DoneIx :
        consumed[i].T >= first /\ (consumed[i].T - first) % k = 0
        => \E r \in RunsOf(j) : log[r].call = i

TwoCadences(a, b) ==
  /\ meta[a].m = "RunEvery" /\ meta[a].every = durationOf(10)
  /\ meta[b].m = "RunEvery" /\ meta[b].every = durationOf(30)
  /\ \A j \in {a, b} :
        Continuing(j) /\ meta[j].cur = 0 /\ meta[j].tc = 0 /\ ~meta[j].nested
  /\ \A j \in JobIds \ {a, b} : meta[j].st = "none"
  /\ Len(consumed) = TestTicks /\ DoneIx = CallIx

EveryRevolution(j) ==
  /\ meta[j].m = "RunEvery" /\ meta[j].every = numBuckets
  /\ Continuing(j) /\ meta[j].cur = 0

\* C14: a job of RunEvery for one revolution of the wheel, registered at
\* cursor 0, runs exactly at the ticks wheel_size, 2 * wheel_size, ..., five
\* times in five revolutions and one tick; its re-insertion goes to the
\* bucket just drained and the Tick call does not run it again.
C14_EveryRevolution ==
  \A j \in JobIds : EveryRevolution(j) =>
     /\ RunsEvery(j, numBuckets, numBuckets)
     /\ \A k, l \in RunsOf(j) : log[k].call = log[l].call => k = l
     /\ \A p \in Threads :
           pc[p] \in {"rq_lock", "rq_unlock"} /\ loc[p].job.id = j
           => loc[p].rb = TickBucket(loc[p].tickNow)
     /\ Len(consumed) = LongTicks /\ DoneIx = CallIx
        => Cardinality(RunsOf(j)) = 5

\* C14, witness: the job has run five times and the Tick calls of five
\* revolutions and one tick have returned.
C14_Witness ==
  \E j \in JobIds :
     /\ EveryRevolution(j)
     /\ Len(consumed) = LongTicks /\ DoneIx = CallIx
     /\ TicksOf(j) = {n * numBuckets : n \in 1 .. 5}
     /\ \E b \in Buckets : \E x \in 1 .. Len(buckets[b]) :
           buckets[b][x].id = j /\ b = TickBucket(consumed[Len(consumed)].T)

\* C15: a job of RunEveryAt(task, I, S) or RunEveryAfter(task, I, d) with k
\* = span_of(I) >= 1, whose first tick s (tickOf(S), or the cursor at
\* registration plus span_of(d)) was not behind the cursor, and whose task
\* returns true, runs exactly once at each tick s + n * k and at no other
\* tick (one driver, no Seek), also when k is larger than the wheel size or
\* does not divide it.
C15_EveryFrom ==
  \A j \in JobIds :
     meta[j].m \in {"RunEveryAt", "RunEveryAfter"} /\ Continuing(j) =>
        /\ meta[j].m = "RunEveryAfter"
           => meta[j].when = meta[j].cur + durationOf(meta[j].d)
        /\ RunsEvery(j, meta[j].when, meta[j].every)

\* C15, witness: a job of RunEveryAfter with an interval longer than a
\* revolution, registered at a cursor other than 0, and a job of RunEveryAt
\* with an interval that does not divide the wheel size, have both run at
\* their first tick and one interval later.
C15_Witness ==
  \E j, h \in JobIds :
     /\ meta[j].m = "RunEveryAfter" /\ Continuing(j)
     /\ meta[j].every > numBuckets /\ meta[j].cur > 0
     /\ {meta[j].when, meta[j].when + meta[j].every} \subseteq TicksOf(j)
     /\ meta[h].m = "RunEveryAt" /\ Continuing(h)
     /\ numBuckets % meta[h].every # 0
     /\ {meta[h].when, meta[h].when + meta[h].every} \subseteq TicksOf(h)

\* C16: once the task of a recurring job has returned false, it is not
\* invoked again: the job is in no bucket, is not being re-inserted and is
\* not in the execution buffer of a Tick call.
C16_StopsForGood ==
  \A j \in JobIds : meta[j].stop > 0 =>
     /\ \A k \in RunsOf(j) : k <= meta[j].stop
     /\ Places(j) = 0
     /\ \A p \in Threads :
           pc[p] \in {"rq_lock", "rq_unlock"} => loc[p].job.id # j

\* C16, witness: the task of a recurring job returned false on its second
\* invocation, and the Tick call of the tick one interval later has
\* returned.
C16_Witness ==
  \E j \in JobIds : \E i \in DoneIx :
     /\ meta[j].stop > 0
     /\ Cardinality(RunsOf(j)) = 2
     /\ consumed[i].T = log[meta[j].stop].T + meta[j].every

\* The positions of bucket b that hold the job of id j as it was appended.
Intact(j, b) ==
  {x \in 1 .. Len(buckets[b]) :
     buckets[b][x] = [id |-> j, RunAt |-> meta[j].when,
                      Since |-> meta[j].since, Every |-> meta[j].every]}

\* Jobs a and b are one-shot jobs one revolution apart, appended, not
\* behind the cursor, before the Tick call i that consumes the tick of a
\* took the lock of their bucket; call i has returned.
Collide(a, b, i) ==
  /\ meta[b].when = meta[a].when + numBuckets
  /\ \A j \in {a, b} :
        /\ meta[j].every = 0 /\ meta[j].aligned
        /\ meta[j].tc < i
  /\ consumed[i].T = meta[a].when
  /\ consumed[i].done

\* C17: of two jobs with RunAt = T and RunAt = T + wheel_size, which map to
\* the same bucket, the Tick call consuming T runs the first only; the
\* second stays in the bucket as it was appended until the Tick call
\* consuming T + wheel_size, which runs it.
C17_CollisionKept ==
  \A a, b \in Accepted : \A i \in CallIx : Collide(a, b, i) =>
     /\ bucketIdx(meta[a].when) = bucketIdx(meta[b].when)
     /\ \E k \in RunsOf(a) : log[k].call = i
     /\ \A k \in RunsOf(b) : log[k].T = meta[b].when
     /\ (\A h \in CallIx : consumed[h].T < meta[b].when)
        => Cardinality(Intact(b, bucketIdx(meta[b].when))) = 1
     /\ \A h \in DoneIx :
           consumed[h].T = meta[b].when => Cardinality(RunsOf(b)) = 1

\* C17, witness: two such jobs of RunAt have both run, a revolution apart.
C17_Witness ==
  \E a, b \in Accepted : \E i, h \in DoneIx :
     /\ Collide(a, b, i)
     /\ meta[a].m = "RunAt" /\ meta[b].m = "RunAt"
     /\ consumed[h].T = meta[b].when
     /\ \E k \in RunsOf(b) : log[k].call = h

\* C18: RunAfter(task, d) called at cursor c makes a one-shot job with
\* RunAt = c + span_of(d), where span_of(d) is d divided by the resolution,
\* truncated, for d >= 0; with one driver and no Seek, a job that was not
\* behind the cursor when appended runs exactly once, in the Tick call that
\* consumes c + span_of(d), and in no other call.
C18_RunAfter ==
  \A j \in Accepted : meta[j].m = "RunAfter" =>
     /\ meta[j].every = 0
     /\ meta[j].when = meta[j].cur + ToSpan(GoDiv(meta[j].d, resolution))
     /\ meta[j].d >= 0 => meta[j].when = meta[j].cur + (meta[j].d \div resolution)
     /\ meta[j].aligned /\ NoSeek =>
           /\ Cardinality(RunsOf(j)) <= 1
           /\ \A k \in RunsOf(j) : log[k].T = meta[j].when
           /\ \A i \in DoneIx :
                 consumed[i].T = meta[j].when => RunsOf(j) # {}

\* C18, witness: RunAfter with a delay of two ticks and a half, called at a
\* cursor other than 0; the task has run two ticks later and the Tick call
\* has returned.
C18_Witness ==
  \E j \in Accepted : \E i \in DoneIx :
     /\ meta[j].m = "RunAfter" /\ meta[j].d = 25 /\ meta[j].cur > 0
     /\ consumed[i].T = meta[j].cur + 2
     /\ \E k \in RunsOf(j) : log[k].call = i
     /\ \E h \in DoneIx : consumed[h].T = meta[j].cur + 1

\* The number of jobs that the scheduler holds: those stored in the buckets
\* and those drained by a Tick call in progress and not yet finished.
Held ==
  Cardinality(UNION {{<<b, x>> : x \in Live(b)} : b \in Buckets})
  + Cardinality(UNION {{<<p, x>> : x \in Owned(p)} : p \in driver})

\* C19: the jobs held by the scheduler are always fewer than maxJobs, and
\* never more than the outstanding-job counter (one driver).
C19_Bounded == Held < maxJobs /\ Held <= jobs

\* C19, witness: a scheduling call waits in the admission loop while
\* maxJobs - 1 jobs are held.
C19_Witness ==
  \E p \in Threads : pc[p] = "s_wait" /\ Held = maxJobs - 1

\* The scheduling calls that were admitted and have not appended their job.
InFlight == Cardinality({p \in Threads : pc[p] \in {"s_enq", "s_lock"}})

\* No job was lost to a panic with its admission slot.
NoFault == \A j \in JobIds : meta[j].st \notin {"panic", "aborted"}

\* C20: a scheduling call that waits in the admission loop is let in by its
\* next look at the counter once there is room for its job, i.e. the jobs
\* held, those of the calls already admitted and its own are fewer than
\* maxJobs, however many calls are waiting (the thread that calls Tick is
\* not among them).
C20_AdmittedWhenRoom ==
  \A p \in Threads :
     /\ pc[p] = "s_wait" /\ NoFault
     /\ \A q \in driver : pc[q] # "s_wait"
     /\ Held + InFlight + 1 < maxJobs
     => ~AtCapacity(jobs)

\* C21: every scheduling method returns to its caller, whatever wall time
\* (one before the epoch included) and whatever duration (an interval
\* shorter than the resolution included) it is given: no call panics.
C21_AlwaysReturns == \A j \in JobIds : meta[j].st # "panic"

\* The greatest element of a non-empty set of integers.
Greatest(S) == CHOOSE x \in S : \A y \in S : y <= x

\* The Tick call that last had job j: the one that last ran its task, or,
\* before its first run, the last call that could not see its append.
LastSeen(j) ==
  IF RunsOf(j) = {} THEN meta[j].tc ELSE log[Greatest(RunsOf(j))].call

\* The target tick of job j: the one given to schedule, or, after a run,
\* the tick of its last run plus its interval.
CurRunAt(j) ==
  IF RunsOf(j) = {} THEN meta[j].when
  ELSE log[Greatest(RunsOf(j))].T + meta[j].every

\* The Tick calls that have returned since job j was last appended (or
\* drained) and whose tick was not before its target: before each of them
\* the job sat in its bucket with RunAt <= cursor, or in the buffer.
SatThrough(j) ==
  {h \in DoneIx : h > LastSeen(j) /\ consumed[h].T >= CurRunAt(j)}

\* The jobs that a Tick call drained and that a panic of an earlier task of
\* that call left without a run.
Lost ==
  {j \in JobIds :
     /\ meta[j].st = "aborted"
     /\ RunsOf(j) = {} \/ consumed[LastSeen(j)].done}

\* Every job of the set has been through fewer than numBuckets Tick calls
\* since its target tick was reached, and no job was dropped with its task
\* never run.
RunsInRevolution(J) ==
  /\ \A j \in J : Cardinality(SatThrough(j)) < numBuckets
  /\ \A j \in JobIds : meta[j].st = "dropped" => RunsOf(j) # {}

PrevRun(k) ==
  LET before == {r \in RunsOf(log[k].id) : r < k}
  IN IF before = {} THEN 0 ELSE Greatest(before)

\* The tick that the elapsed time of invocation k is said to count from:
\* the cursor when the job was scheduled, or the tick of the previous run.
FromTick(k) ==
  IF PrevRun(k) = 0 THEN meta[log[k].id].sc ELSE log[PrevRun(k)].T

\* C23, as stated: the elapsed time given to a task invoked at tick T is
\* (T - s) * resolution, with s the cursor when the job was scheduled (first
\* invocation) or the tick of its previous invocation.
C23_Original ==
  \A k \in LogIx : log[k].elapsed = (log[k].T - FromTick(k)) * resolution

\* C23: the elapsed time is the Since field of the job times the
\* resolution: (RunAt - s) modulo the span range for the first invocation,
\* the interval for the later ones.  It is (T - s) * resolution when the
\* job is invoked at its RunAt and, for the first invocation, RunAt was not
\* behind the cursor s.
C23_Elapsed ==
  \A k \in LogIx :
     LET j == log[k].id
         s == FromTick(k)
     IN IF PrevRun(k) = 0
        THEN /\ log[k].elapsed = ToSpan(meta[j].when - s) * resolution
             /\ meta[j].when >= s /\ meta[j].when - s < spanMod
                /\ log[k].T = meta[j].when
                => log[k].elapsed = (log[k].T - s) * resolution
        ELSE /\ log[k].elapsed = meta[j].every * resolution
             /\ log[k].T = s + meta[j].every
                => log[k].elapsed = (log[k].T - s) * resolution

\* C23, witness: a task registered by RunEvery(10 ms) with the cursor at 0
\* was invoked twice, each time with an elapsed time of 10 ms.
C23_Witness ==
  \E j \in JobIds :
     /\ meta[j].m = "RunEvery" /\ meta[j].every = 1 /\ meta[j].sc = 0
     /\ Cardinality(RunsOf(j)) >= 2
     /\ \A k \in RunsOf(j) : log[k].elapsed = resolution

\* C24: once the cancel function of emit.Every, emit.EveryAt or
\* emit.EveryAfter has been called, the event of that registration is not
\* published again: no invocation of its task follows the call.
C24_NoEventAfterCancel ==
  \A k \in LogIx : log[k].id \in cancelled => k <= meta[log[k].id].cancel

\* C25: once the cancel function of Start is called (or its context
\* cancelled) while the clock runs, the clock stops for good: its goroutine
\* has returned and calls Tick no more, and the cursor moves no more.
C25_ClockStops ==
  /\ (ctxDone /\ clock = "running")
        ~> [](clock = "stopped" /\ pc[ClockThread] = "idle")
  /\ [][clock = "stopped" => next' = next]_vars

\* C25, witness: the clock was cancelled and has stopped after it called
\* Tick at least once and ran a task.
C25_Witness ==
  /\ ctxDone /\ clock = "stopped"
  /\ \E h \in DoneIx : h >= 2 /\ \E k \in LogIx : log[k].call = h

\* C26: a panic of a task is not caught by Tick: the Tick call ends there
\* without returning, its thread is back in the caller, and the jobs that
\* the call drained after the faulting one are not run in that call.
C26_FaultPropagates ==
  \A h \in CallIx :
     consumed[h].fault > 0 =>
        /\ ~consumed[h].done
        /\ \A p \in Threads : loc[p].ci # h
        /\ \A k \in LogIx : log[k].call = h => k <= consumed[h].fault
        /\ \A j \in consumed[h].lost : \A k \in RunsOf(j) : log[k].call # h

\* C26, witness: a task panicked in a Tick call that had drained another
\* job after it; that job has not run, and a later Tick call has returned.
C26_Witness ==
  \E h \in CallIx :
     /\ consumed[h].fault > 0
     /\ \E j \in consumed[h].lost : RunsOf(j) = {}
     /\ \E g \in DoneIx : g > h

\* The value x brought into the range of the span type.
Clamp(x) ==
  IF x < 0 THEN 0 ELSE IF x > spanMod - 1 THEN spanMod - 1 ELSE x

\* C27: the Since field that schedule stores is RunAt - cursor clamped to
\* the range of the span type: 0 when RunAt is behind the cursor, the
\* greatest span when the difference is beyond it; it never wraps around.
C27_SinceClamped ==
  \A j \in Accepted :
     RunsOf(j) = {} => meta[j].since = Clamp(meta[j].when - meta[j].sc)

\* No scheduling call and no Tick call is in progress.
Quiet == \A p \in Threads : pc[p] = "idle"

\* The jobs whose admission slot is taken.
Slots == {j \in JobIds : meta[j].slot}

\* No scheduling call has panicked.
NoCallFault == \A j \in JobIds : meta[j].st # "panic"

C29_NestedReturns ==
  \A p \in driver : ~(pc[p] = "s_wait" /\ loc[p].inTask)

\* The jobs stored in the buckets that Tick has re-inserted, with their
\* intervals.
Reinserted ==
  UNION {{buckets[b][x] : x \in {y \in Live(b) : RunsOf(buckets[b][y].id) # {}}} :
           b \in Buckets}

\* C30: every job stored in bucket i has RunAt mod numBuckets = i, whether
\* a scheduling method appended it or Tick re-inserted it, in the bucket
\* just drained or in another one.
C30_BucketOfRunAt ==
  \A b \in Buckets :
     \A x \in 1 .. Len(buckets[b]) : buckets[b][x].RunAt % numBuckets = b

\* C30, witness: the buckets hold a job that Tick re-inserted in the bucket
\* it had drained and one that it re-inserted in another bucket, after a
\* scheduling method had appended them.
C30_Witness ==
  /\ \E q \in Reinserted : q.Every % numBuckets = 0
  /\ \E q \in Reinserted : q.Every % numBuckets # 0

\* The jobs of sequence q with RunAt > T, in the order of q.
LaterOf(q, T) ==
  LET test(j) == j.RunAt > T IN SelectSeq(q, test)

\* The jobs of sequence q with RunAt <= T, in the order of q.
DueOf(q, T) ==
  LET test(j) == j.RunAt <= T IN SelectSeq(q, test)

\* C31: when the Tick call consuming T unlocks the bucket it has scanned,
\* the bucket holds exactly the jobs it held at the lock that have
\* RunAt > T, in their order, and the execution buffer exactly those with
\* RunAt <= T, in their order: no job is lost or duplicated.
C31_DrainSplits ==
  [][\A p \in Threads :
        pc[p] = "t_scan" /\ pc'[p] = "t_range" =>
           /\ buckets'[TickBucket(loc[p].tickNow)]
                = LaterOf(loc[p].snap, loc[p].tickNow)
           /\ SubSeq(pending'.arr, 1, pending'.len)
                = DueOf(loc[p].snap, loc[p].tickNow)]_vars

\* C31, witness: a Tick call has unlocked a bucket that held a job to
\* drain in front of a job to keep.
C31_Witness ==
  \E p \in Threads :
     /\ pc[p] = "t_range"
     /\ Len(loc[p].snap) = 2
     /\ loc[p].snap[1].RunAt <= loc[p].tickNow
     /\ loc[p].snap[2].RunAt > loc[p].tickNow

\* The jobs that a task has scheduled with Run while a Tick call ran it,
\* with no Seek.
NestedRuns ==
  {j \in Accepted : meta[j].nested /\ meta[j].m = "Run" /\ NoSeek}

\* C32: a task that calls Run while the Tick call consuming T runs it gets
\* the new task scheduled for tick T + 1: the new task is not run in that
\* Tick call, and it is run exactly once, in the next Tick call (one
\* driver, no Seek).
C32_NestedNextTick ==
  \A j \in NestedRuns :
     LET h == meta[j].call
     IN /\ meta[j].when = consumed[h].T + 1
        /\ \A k \in RunsOf(j) : log[k].call = h + 1
        /\ Cardinality(RunsOf(j)) <= 1
        /\ (h + 1) \in DoneIx => Cardinality(RunsOf(j)) = 1

\* C32, witness: a task scheduled another with Run, which was run once in
\* the next Tick call and in no later one.
C32_Witness ==
  \E j \in NestedRuns :
     /\ (meta[j].call + 2) \in DoneIx
     /\ Cardinality(RunsOf(j)) = 1

\* The jobs that bucket b holds, in order (under a scan: the part already
\* compacted and the part not yet scanned).
LiveSeq(b) ==
  IF \E p \in Threads : pc[p] = "t_scan" /\ TickBucket(loc[p].tickNow) = b
  THEN LET p == CHOOSE q \in Threads :
                  pc[q] = "t_scan" /\ TickBucket(loc[q].tickNow) = b
       IN SubSeq(buckets[b], 1, loc[p].off)
          \o SubSeq(buckets[b], loc[p].k, Len(buckets[b]))
  ELSE buckets[b]

\* Bucket b is under the scan of a Tick call, which consumes tick T.
Scanned(b, T) ==
  \E p \in Threads :
     pc[p] = "t_scan" /\ loc[p].tickNow = T /\ TickBucket(T) = b

\* C33: a Tick call that consumes T removes jobs only from bucket
\* T mod numBuckets, and there it leaves the jobs with RunAt > T as they
\* are (RunAt, Since, Every, order); any other change of a bucket is an
\* append of a job that belongs to it.
C33_OnlyItsBucket ==
  [][\A b \in Buckets :
        \/ LiveSeq(b)' = LiveSeq(b)
        \/ \E T \in {loc[p].tickNow : p \in Threads} :
              /\ Scanned(b, T)
              /\ LaterOf(LiveSeq(b)', T) = LaterOf(LiveSeq(b), T)
              /\ Len(LiveSeq(b)') <= Len(LiveSeq(b))
        \/ /\ Len(buckets'[b]) = Len(buckets[b]) + 1
           /\ SubSeq(buckets'[b], 1, Len(buckets[b])) = buckets[b]
           /\ bucketIdx(buckets'[b][Len(buckets'[b])].RunAt) = b]_vars

\* C33, witness: a Tick call has scanned a bucket and left in it a job that
\* is not due, while another bucket holds a job.
C33_Witness ==
  \E p \in Threads :
     /\ pc[p] = "t_range"
     /\ \E x \in 1 .. Len(loc[p].snap) : loc[p].snap[x].RunAt > loc[p].tickNow
     /\ \E b \in Buckets :
           b # TickBucket(loc[p].tickNow) /\ buckets[b] # <<>>

\* C34: Seek(t) sets the cursor to tickOf(t) and changes nothing else of
\* the scheduler (buckets, execution buffer, counter, locks; no task is
\* run), and the next Tick call consumes exactly that tick.
C34_SeekOnlyCursor ==
  /\ [][\A t \in seekTimes :
          t \notin seekTimes' =>
             /\ next' = tickOf(t)
             /\ UNCHANGED <<buckets, mu, jobs, pending, pc, loc, log>>]_vars
  /\ [](\A h \in CallIx : consumed[h].i = 1 => consumed[h].T = consumed[h].c)
  /\ [](base # 0 => \E t \in MenuOneShot.seeks \cup MenuEdge.seeks :
                       base = tickOf(t))

\* C34, witness: Seek was called while a job was stored, and the Tick call
\* after it has consumed the tick of the time given and has returned.
C34_Witness ==
  /\ base = tickOf(20)
  /\ \E h \in DoneIx : consumed[h].c = base /\ consumed[h].i = 1
  /\ \E j \in JobIds : meta[j].st = "queued" /\ meta[j].tc = 0

\* The ticks and the spans on which the conversions are compared.
TickValues == (-spanMod) .. spanMod

SpanValues == 0 .. (spanMod - 1)

\* The conversions composed on every tick and every span of the ranges.
InverseOnAligned ==
  /\ \A t \in TickValues : tickOf(TimeOf(t)) = t
  /\ \A s \in SpanValues : durationOf(DurationOfSpan(s)) = s
  /\ \A d \in 0 .. spanMod : tickOf(d * resolution) = d

\* C35: tickOf(t.Time()) = t for every tick t and
\* durationOf(s.Duration()) = s for every span s, tickOf maps the time
\* d * resolution after the epoch to tick d, and the same holds of the
\* values the scheduler hands out: the time a Tick call returns converts
\* back to the tick it consumed, and the elapsed duration a task receives
\* converts back to the Since of its job.
C35_RoundTrip ==
  /\ InverseOnAligned
  /\ \A h \in DoneIx : tickOf(consumed[h].ret) = consumed[h].T
  /\ \A k \in LogIx :
        /\ log[k].elapsed = DurationOfSpan(durationOf(log[k].elapsed))

\* C35, witness: a Tick call of a tick after the epoch has returned its
\* time, and a task has received an elapsed duration of more than one
\* resolution.
C35_Witness ==
  /\ \E h \in DoneIx : consumed[h].T > 1 /\ consumed[h].ret = TimeOf(consumed[h].T)
  /\ \E k \in LogIx : log[k].elapsed > resolution

\* The jobs registered by RunAfter or RunEveryAfter with a delay that is
\* zero or negative.
NoDelay ==
  {j \in JobIds : /\ meta[j].st \notin {"none", "panic"}
                  /\ meta[j].m \in {"RunAfter", "RunEveryAfter"}
                  /\ meta[j].d <= 0}

\* C36: a job registered by RunAfter or RunEveryAfter with a zero or
\* negative delay has the cursor tick of its registration as target: the
\* span of the delay is 0 and the target is not in the future.
C36_NoDelayIsNow ==
  \A j \in NoDelay :
     /\ durationOf(meta[j].d) = 0
     /\ meta[j].when = meta[j].cur

\* The jobs registered by RunEveryAt or RunEveryAfter with an interval
\* shorter than the resolution.
ShortInterval ==
  {j \in JobIds : /\ meta[j].st \notin {"none", "panic"}
                  /\ meta[j].m \in {"RunEveryAt", "RunEveryAfter"}
                  /\ meta[j].iv \in 0 .. (resolution - 1)}

\* C37: a job registered by RunEveryAt or RunEveryAfter with an interval
\* shorter than the resolution has Every = 0 wherever it is stored, its
\* task is run at most once, the return of its task never leads to a
\* re-insertion, whatever the task returns, and releases its slot, after
\* which the job is in no bucket.
C37_ShortIntervalOnce ==
  /\ [](\A j \in ShortInterval :
          /\ meta[j].every = 0
          /\ \A b \in Buckets : \A x \in Live(b) :
                buckets[b][x].id = j => buckets[b][x].Every = 0
          /\ Cardinality(RunsOf(j)) <= 1
          /\ meta[j].st = "dropped" =>
                ~meta[j].slot /\ Places(j) = 0 /\ Cardinality(RunsOf(j)) = 1)
  /\ [][\A p \in Threads :
          /\ pc[p] = "in_task"
          /\ loc[p].cur.id \in ShortInterval
          => /\ pc'[p] # "rq_lock"
             /\ pc'[p] = "t_exec" =>
                   /\ jobs' = jobs - 1
                   /\ meta'[loc[p].cur.id].st = "dropped"]_vars

\* C37, witness: both registrations of an interval shorter than the
\* resolution have been run once and have left the scheduler, and a Tick
\* call after the last of them has returned.
C37_Witness ==
  /\ Cardinality(ShortInterval) = 2
  /\ \A j \in ShortInterval : meta[j].st = "dropped" /\ ~meta[j].slot
  /\ \E h \in DoneIx : \A k \in LogIx : log[k].call < h
  /\ jobs = 0

\* The Tick calls that a fault of a task has aborted.
Faulted == {h \in CallIx : consumed[h].fault > 0}

\* C38: the jobs that a Tick call had drained and not yet run when a task
\* fault aborted it are in no bucket and in no buffer of a running call,
\* are run by no later Tick call and keep their admission slot (the counter
\* stays at least their number), and the step of the fault changes no
\* bucket and not the counter.
C38_LostForever ==
  /\ [](\A h \in Faulted : \A j \in consumed[h].lost :
           /\ Places(j) = 0
           /\ \A k \in RunsOf(j) : log[k].call < h
           /\ meta[j].slot /\ meta[j].st = "aborted")
  /\ [](jobs >= Cardinality(UNION {consumed[h].lost : h \in Faulted}))
  /\ [][(\E h \in CallIx : consumed[h].fault = 0 /\ consumed'[h].fault > 0)
           => buckets' = buckets /\ jobs' = jobs]_vars

\* C38, witness: a task fault has aborted a Tick call with a job drained
\* and not run, and a later Tick call of a tick that maps to the bucket of
\* that job has returned.
C38_Witness ==
  \E h \in Faulted : \E j \in consumed[h].lost :
     /\ RunsOf(j) = {}
     /\ \E g \in DoneIx :
           /\ g > h
           /\ consumed[g].T > meta[j].when
           /\ TickBucket(consumed[g].T) = bucketIdx(meta[j].when)

\* A task fault has aborted a Tick call while a bucket held a job, and a
\* later Tick call has run that job.
C38_StoredRuns ==
  \E h \in Faulted : \E k \in LogIx :
     /\ log[k].call > h
     /\ meta[log[k].id].rc \in 0 .. (h - 1)

====
